---- MODULE Spec2Model ----
(***************************************************************************)
(* Elisa agent firmware for the ESP32-S3-BOX-3: the face renderer          *)
(* (elisa_face.c), the runtime API client (elisa_api.c), the config loader *)
(* (elisa_config.c) and the main task (elisa_main.c: app_main and          *)
(* conversation_loop), together with the LVGL animation timer that runs    *)
(* anim_timer_cb concurrently with the main task.                          *)
(*                                                                         *)
(* conversation_loop: elisa_main.c carries the loop body as the numbered   *)
(* step listing of lines 257-289 (a comment block); the statement that is  *)
(* compiled today is the vTaskDelay(100) of line 292.  The loop is         *)
(* modelled as that listing, step by step, followed by the delay.          *)
(*                                                                         *)
(* Pointers are strings: "NULL", the name of a live or freed heap block,   *)
(* or "wild" for the indeterminate value of an uninitialized pointer.      *)
(***************************************************************************)
EXTENDS Integers, Sequences, FiniteSets, TLC

VARIABLES
    \* elisa_face.c statics
    s_state, s_audio_level, s_initialized_face, s_anim_timer,
    \* LVGL: number of live timers that run anim_timer_cb
    lv_timers,
    \* elisa_face.c: the descriptor copy, the geometry of the objects that
    \* s_face_bg, s_eye_left, s_eye_right and s_mouth point to, and how many
    \* face backgrounds elisa_face_init has put on the screen
    s_desc, lv_geometry, lv_faces,
    \* elisa_api.c statics, and the esp_http_client handles alive
    s_initialized_api, http_clients,
    \* elisa_config.c statics
    s_config, s_face, s_config_loaded, s_face_loaded,
    \* main task: position, remaining vTaskDelay, locals of conversation_loop
    pc, delay_left, audio_buf, audio_len, response, ret,
    \* app_main: the local elisa_heartbeat_t hb
    hb,
    \* ESP-SR wake word event queue (events are indistinguishable: a count)
    sr_event_queue,
    \* C heap: the set of live blocks
    heap,
    \* what the collaborators did in the current turn (inputs, recorded)
    capture_ok, http_result,
    \* history variables (not program state)
    face_trace, calls_this_turn, in_flight, bad_free, error_dwell, woken,
    tick_in_turn, tick_state, last_write, last_call, last_load, hb_call, api_call

faceObjVars == <<s_desc, lv_geometry, lv_faces>>
faceVars == <<s_state, s_audio_level, s_initialized_face, s_anim_timer, lv_timers,
              faceObjVars>>
apiVars == <<s_initialized_api, http_clients>>
configVars == <<s_config, s_face, s_config_loaded, s_face_loaded>>
loopVars == <<pc, delay_left, audio_buf, audio_len, response, ret, sr_event_queue, heap>>
inputVars == <<capture_ok, http_result>>
histVars == <<face_trace, calls_this_turn, in_flight, bad_free, error_dwell, woken,
              tick_in_turn, tick_state, last_write, last_call>>
bootVars == <<hb, last_load, hb_call, api_call>>
vars == <<faceVars, apiVars, configVars, loopVars, inputVars, histVars, bootVars>>

----------------------------------------------------------------------------
\* Bounds of the model

\* capacity of the wake word event queue
MaxQueue == 2
\* longest captured utterance, in bytes
MaxAudioLen == 2
\* how many LVGL timers a run may create (elisa_face_init called repeatedly)
MaxTimers == 2
\* how much of a vTaskDelay elapses in one step of time, in ms
DelayQuantumMs == 500
\* how many times a run may build the face objects (elisa_face_init succeeding)
MaxFaces == 3

----------------------------------------------------------------------------
\* Program constants

\* vTaskDelay(pdMS_TO_TICKS(2000)) of the error branch
ERROR_COOLDOWN_MS == 2000
\* vTaskDelay(pdMS_TO_TICKS(100)) at the end of each loop iteration
LOOP_DELAY_MS == 100
\* vTaskDelay(pdMS_TO_TICKS(1000)) of the halt loop
HALT_DELAY_MS == 1000
\* HTTP 200
HTTP_OK == 200
\* eye radius lookup, in pixels
EYE_SIZE_SMALL == 8
EYE_SIZE_MEDIUM == 12
EYE_SIZE_LARGE == 16
\* LVGL's radius value for a fully rounded object
LV_RADIUS_CIRCLE == 32767

NULL == "NULL"
WILD == "wild"

\* face_state_t
FACE_STATE_IDLE == "IDLE"
FACE_STATE_LISTENING == "LISTENING"
FACE_STATE_THINKING == "THINKING"
FACE_STATE_SPEAKING == "SPEAKING"
FACE_STATE_ERROR == "ERROR"
face_state_t ==
    {FACE_STATE_IDLE, FACE_STATE_LISTENING, FACE_STATE_THINKING,
     FACE_STATE_SPEAKING, FACE_STATE_ERROR}

\* the float that is not a number, kept apart from every level in tenths
NaN == 9999

\* float arguments in tenths: -3 is -0.3f, 17 is 1.7f; and NaN
AudioLevels == {-3, 0, 4, 10, 17, NaN}

\* a < b on floats: false whenever an operand is NaN
FloatLess(a, b) == a # NaN /\ b # NaN /\ a < b

\* face_descriptor_t, as far as it decides the geometry elisa_face_init builds
BaseShapes == {"round", "square", "oval"}
EyeSizes == {"small", "medium", "large"}
FaceDescriptors == [base_shape : BaseShapes, eyes_size : EyeSizes \cup {""}]
\* "Defaults matching DEFAULT_FACE from display.ts"
DEFAULT_FACE == [base_shape |-> "round", eyes_size |-> "medium"]
\* a zero-initialized static face_descriptor_t
ZeroDesc == [base_shape |-> "", eyes_size |-> ""]

Max0(x) == IF x < 0 THEN 0 ELSE x

----------------------------------------------------------------------------
\* History helpers

\* the face state as an observer sees it: a new entry whenever it changes
Observed(trace, st) ==
    IF trace # <<>> /\ trace[Len(trace)] # st THEN Append(trace, st) ELSE trace

Observe == face_trace' = Observed(face_trace, s_state')

\* the last call of the face API: its arguments, its return value and the
\* statics as they were when it was made
NoCall == [op |-> "none", state |-> FACE_STATE_IDLE, level |-> 0,
           was_init |-> FALSE, prev |-> FACE_STATE_IDLE, scr_ok |-> TRUE,
           timers |-> 0, handle |-> "NULL", faces |-> 0]

\* the last call of the API client: its arguments, the client state when it
\* was made, whether it holds an HTTP handle, the exchange it performed, its
\* return value, and how many handles it created and cleaned up
NoApiCall ==
    [op |-> "none", phase |-> "idle", was_init |-> FALSE, out_non_null |-> FALSE,
     h |-> [err |-> TRUE, status |-> 0, audio |-> FALSE, done |-> FALSE],
     ret |-> 0, created |-> 0, cleaned |-> 0]

\* the last elisa_load_config call: its return value, whether the file
\* carried a face_descriptor, and whether a configuration was loaded before
NoLoad == [called |-> FALSE, ret |-> 0, face |-> FALSE, prev_ok |-> FALSE]

----------------------------------------------------------------------------
\* elisa_face.c

\* the timer is never started
lv_timer_create_NoTimer(n) == n

\* lv_timer_create(anim_timer_cb, ANIM_TICK_MS, NULL): one more live timer
lv_timer_create(n) == n + 1

\* a transition table that refuses to leave ERROR
StateAfterSet_RejectsFromError(initialized, cur, state) ==
    IF ~initialized \/ cur = FACE_STATE_ERROR THEN cur ELSE state

\* a set_state without the s_initialized test
StateAfterSet_NoGuard(initialized, cur, state) == state

\* s_state after elisa_face_set_state(state)
StateAfterSet(initialized, cur, state) ==
    IF ~initialized THEN cur ELSE state

\* a callback that lets the error face expire by itself
anim_timer_cb_state_ErrorExpires(cur) ==
    IF cur = FACE_STATE_ERROR THEN FACE_STATE_IDLE ELSE cur

\* s_state after one run of anim_timer_cb: the callback body is empty
anim_timer_cb_state(cur) == cur

\* s_audio_level after one run of anim_timer_cb
anim_timer_cb_level(lvl) == lvl

\* a callback that opens the mouth with the audio level while speaking
anim_timer_cb_geometry_MouthFollowsLevel(st, g) ==
    IF st = FACE_STATE_SPEAKING THEN [g EXCEPT !.mouth_h = 12] ELSE g

\* the geometry of the face objects after one run of anim_timer_cb
anim_timer_cb_geometry(st, g) == g

\* the clamp of elisa_face_set_audio_level, in tenths:
\* if (level < 0.0f) level = 0.0f; if (level > 1.0f) level = 1.0f;
ClampLevel(level) ==
    LET l1 == IF FloatLess(level, 0) THEN 0 ELSE level
    IN  IF FloatLess(10, l1) THEN 10 ELSE l1

get_eye_radius(size_str) ==
    IF size_str = "small" THEN EYE_SIZE_SMALL
    ELSE IF size_str = "large" THEN EYE_SIZE_LARGE
    ELSE EYE_SIZE_MEDIUM

\* no face object exists yet (s_face_bg, s_eye_*, s_mouth are NULL)
NoGeometry ==
    [bg_w |-> 0, bg_h |-> 0, bg_radius |-> 0, eye_w |-> 0, eye_h |-> 0,
     mouth_w |-> 0, mouth_h |-> 0]

\* sizes and radius of the objects elisa_face_init creates from s_desc
FaceGeometry(d) ==
    [bg_w |-> IF d.base_shape \in {"round", "square"} THEN 160 ELSE 140,
     bg_h |-> IF d.base_shape \in {"round", "square"} THEN 160 ELSE 170,
     bg_radius |-> IF d.base_shape = "square" THEN 16 ELSE LV_RADIUS_CIRCLE,
     eye_w |-> get_eye_radius(d.eyes_size) * 2,
     eye_h |-> get_eye_radius(d.eyes_size) * 2,
     mouth_w |-> 40, mouth_h |-> 4]

\* s_desc after the copy at the head of elisa_face_init
DescAfterInit(desc_non_null, desc) == IF desc_non_null THEN desc ELSE DEFAULT_FACE

\* elisa_face_init(desc) with lv_scr_act() returning a screen (scr_ok) or
\* NULL.  Objects of an earlier call stay on the screen: the static pointers
\* are overwritten, nothing is deleted.
elisa_face_init(desc_non_null, desc, scr_ok) ==
    /\ s_desc' = DescAfterInit(desc_non_null, desc)
    /\ IF ~scr_ok
       THEN UNCHANGED <<s_state, s_audio_level, s_initialized_face, s_anim_timer,
                        lv_timers, lv_geometry, lv_faces, last_write>>
       ELSE /\ lv_geometry' = FaceGeometry(s_desc')
            /\ lv_faces' = lv_faces + 1
            /\ lv_timers' = lv_timer_create(lv_timers)
            /\ s_anim_timer' = "lv_timer"
            /\ s_state' = FACE_STATE_IDLE
            /\ s_initialized_face' = TRUE
            /\ last_write' = FACE_STATE_IDLE
            /\ UNCHANGED s_audio_level

\* an init that reports success without a screen
elisa_face_init_ret_AlwaysOk(scr_ok) == 0

elisa_face_init_ret(scr_ok) == IF scr_ok THEN 0 ELSE -1

elisa_face_set_state(state) ==
    /\ s_state' = StateAfterSet(s_initialized_face, s_state, state)
    /\ last_write' = IF s_initialized_face THEN state ELSE last_write
    /\ UNCHANGED <<s_audio_level, s_initialized_face, s_anim_timer, lv_timers,
                   faceObjVars>>

elisa_face_get_state == s_state

elisa_face_set_audio_level(level) ==
    /\ s_audio_level' = ClampLevel(level)
    /\ UNCHANGED <<s_state, s_initialized_face, s_anim_timer, lv_timers, faceObjVars,
                   last_write>>

\* a cleanup that deletes the timer and keeps the stale handle
TimerAfterDel_KeepsHandle(t) == t

\* s_anim_timer after lv_timer_del(s_anim_timer); s_anim_timer = NULL;
TimerAfterDel(t) == NULL

\* "LVGL objects are cleaned up when screen is deleted": they stay
elisa_face_cleanup ==
    /\ IF s_anim_timer # NULL
       THEN /\ lv_timers' = lv_timers - 1
            /\ s_anim_timer' = TimerAfterDel(s_anim_timer)
       ELSE UNCHANGED <<lv_timers, s_anim_timer>>
    /\ s_initialized_face' = FALSE
    /\ UNCHANGED <<s_state, s_audio_level, faceObjVars, last_write>>

\* The LVGL task runs anim_timer_cb whenever a timer created by
\* elisa_face_init is alive, whatever the main task is doing.
Tick ==
    /\ lv_timers > 0
    /\ s_state' = anim_timer_cb_state(s_state)
    /\ s_audio_level' = anim_timer_cb_level(s_audio_level)
    /\ lv_geometry' = anim_timer_cb_geometry(s_state, lv_geometry)
    /\ UNCHANGED <<s_initialized_face, s_anim_timer, lv_timers, s_desc, lv_faces>>
    /\ Observe
    /\ UNCHANGED <<apiVars, configVars, bootVars, loopVars, inputVars>>
    /\ tick_in_turn' = TRUE
    /\ tick_state' = s_state
    /\ UNCHANGED <<calls_this_turn, in_flight, bad_free, error_dwell, woken,
                   last_write, last_call>>

----------------------------------------------------------------------------
\* elisa_config.c

\* /spiffs/runtime_config.json as the loader sees it: whether it opens,
\* whether cJSON_Parse accepts it, the three required strings ("" when the
\* key is absent or not a string), whether face_descriptor is an object,
\* and of that object its base_shape ("round" also when the key is absent)
\* and its eyes.size ("absent" when it has no eyes object)
ConfigFiles ==
    {f \in [exists : BOOLEAN, parses : BOOLEAN, agent_id : {"", "id"},
            api_key : {"", "key"}, runtime_url : {"", "url"}, face : BOOLEAN,
            base_shape : {"round", "oval"}, eyes_size : {"absent", "large"}] :
        ~f.face => f.base_shape = "round" /\ f.eyes_size = "absent"}

EmptyConfig == [agent_id |-> "", api_key |-> "", runtime_url |-> ""]

\* the required fields as safe_strcpy leaves them in s_config
ConfigOf(f) ==
    [agent_id |-> f.agent_id, api_key |-> f.api_key, runtime_url |-> f.runtime_url]

\* "Validate required fields"
RequiredPresent(c) == c.agent_id # "" /\ c.api_key # "" /\ c.runtime_url # ""

\* s_face after parse_face_descriptor(face_json): the defaults when there is
\* no face_descriptor object; eyes.size keeps its old value when the object
\* has no eyes object
parse_face_descriptor(cur, f) ==
    IF ~f.face
    THEN DEFAULT_FACE
    ELSE [base_shape |-> f.base_shape,
          eyes_size |-> IF f.eyes_size = "absent" THEN cur.eyes_size ELSE f.eyes_size]

\* s_face_loaded after parse_face_descriptor: set to true on both paths
FaceLoadedAfterParse(loaded, f) == TRUE

\* s_config_loaded after a load that returns -1: it is not written
ConfigLoadedAfterFailure(loaded) == loaded

elisa_load_config_ret(f) ==
    IF f.exists /\ f.parses /\ RequiredPresent(ConfigOf(f)) THEN 0 ELSE -1

elisa_load_config(f) ==
    IF ~f.exists \/ ~f.parses
    THEN /\ s_config_loaded' = ConfigLoadedAfterFailure(s_config_loaded)
         /\ UNCHANGED <<s_config, s_face, s_face_loaded>>
    ELSE /\ s_config' = ConfigOf(f)
         /\ IF RequiredPresent(ConfigOf(f))
            THEN /\ s_face' = parse_face_descriptor(s_face, f)
                 /\ s_face_loaded' = FaceLoadedAfterParse(s_face_loaded, f)
                 /\ s_config_loaded' = TRUE
            ELSE /\ s_config_loaded' = ConfigLoadedAfterFailure(s_config_loaded)
                 /\ UNCHANGED <<s_face, s_face_loaded>>

\* elisa_get_config() != NULL
elisa_get_config == s_config_loaded

\* elisa_get_face_descriptor() != NULL
elisa_get_face_descriptor == s_face_loaded

----------------------------------------------------------------------------
\* elisa_api.c

\* elisa_turn_response_t
ZeroResponse == [text |-> NULL, audio_data |-> NULL, audio_len |-> 0, status_code |-> 0]

\* the values an uninitialized elisa_turn_response_t local may hold
GarbageResponses ==
    [text : {NULL, WILD}, audio_data : {NULL, WILD}, audio_len : {0, 1},
     status_code : {0, HTTP_OK}]

\* the response is left as the caller declared it
memset_response_Skipped(r) == r

\* memset(response, 0, sizeof(*response))
memset_response(r) == ZeroResponse

\* what one HTTP exchange can do: esp_http_client_perform fails (err), or it
\* completes with a status and a body that carries audio or not
HttpStatuses == {HTTP_OK, 401, 500}
HttpResults ==
    [err : {TRUE}, status : {0}, audio : {FALSE}, done : {TRUE}]
    \cup [err : {FALSE}, status : HttpStatuses, audio : BOOLEAN, done : {TRUE}]
NoExchange == [err |-> TRUE, status |-> 0, audio |-> FALSE, done |-> FALSE]

\* the response after a completed exchange: only status_code is written,
\* the body is not read (text, audio_data and audio_len stay zero)
ResponseAfterPerform(r, h) == [r EXCEPT !.status_code = h.status]

\* elisa_heartbeat_t
ZeroHeartbeat == [healthy |-> FALSE, status_code |-> 0]

\* the values an uninitialized elisa_heartbeat_t local may hold
GarbageHeartbeats == [healthy : BOOLEAN, status_code : {0, HTTP_OK}]

\* elisa_api_heartbeat(&hb): the return value and *result, for a client
\* handle that could be created or not and the exchange h
elisa_api_heartbeat_ret(initialized, client_ok, h) ==
    IF ~initialized \/ ~client_ok \/ h.err THEN -1 ELSE 0

elisa_api_heartbeat_result(initialized, client_ok, h, cur) ==
    IF ~initialized THEN cur
    ELSE IF ~client_ok \/ h.err THEN ZeroHeartbeat
    ELSE [healthy |-> (h.status = HTTP_OK), status_code |-> h.status]

\* a return value that takes every completed exchange for a success
audio_turn_ret_AnyCompleted(h) == IF h.err THEN -1 ELSE 0

\* return value of elisa_api_audio_turn after esp_http_client_perform
audio_turn_ret(h) == IF h.err THEN -1 ELSE IF h.status = HTTP_OK THEN 0 ELSE -1

\* if (!s_initialized || response == NULL) return -1; and the same test on
\* result in elisa_api_heartbeat: TRUE when the call goes on
ApiGuard(initialized, out_non_null) == initialized /\ out_non_null

\* an error path that returns without esp_http_client_cleanup
ClientsAfterExchange_LeakOnError(n, h) == IF h.err THEN n ELSE n - 1

\* the live handles after esp_http_client_perform has returned:
\* esp_http_client_cleanup(client) runs on the error path and on the
\* completed path
ClientsAfterExchange(n, h) == n - 1

\* elisa_api_cleanup()
elisa_api_cleanup ==
    /\ s_initialized_api' = FALSE
    /\ UNCHANGED http_clients

\* elisa_api_init(config)
elisa_api_init(config_non_null) ==
    /\ s_initialized_api' = IF config_non_null THEN TRUE ELSE s_initialized_api
    /\ UNCHANGED http_clients

\* free(p) on heap h
FreeBlock(h, p) == h \ {p}
\* free(p) of a pointer that is neither NULL nor a live block
IsBadFree(h, p) == p # NULL /\ p \notin h

\* elisa_api_free_response(&response): the heap, the response and whether a
\* free() got a pointer that is not a live block
free_response_heap(h, r) ==
    LET h1 == IF r.text # NULL THEN FreeBlock(h, r.text) ELSE h
    IN  IF r.audio_data # NULL THEN FreeBlock(h1, r.audio_data) ELSE h1

free_response_resp(r) ==
    [r EXCEPT !.text = NULL, !.audio_data = NULL,
              !.audio_len = IF r.audio_data # NULL THEN 0 ELSE r.audio_len]

free_response_bad(h, r) ==
    \/ IsBadFree(h, r.text)
    \/ IsBadFree(IF r.text # NULL THEN FreeBlock(h, r.text) ELSE h, r.audio_data)

----------------------------------------------------------------------------
\* elisa_main.c: app_main

\* positions of the main task inside conversation_loop
LoopPcs ==
    {"WaitForWake", "Listening", "capture", "Thinking", "audio_turn",
     "http_perform", "step5", "playback", "cooldown", "free_response",
     "free_audio", "set_idle", "loop_delay"}

\* positions at which the main task sits in vTaskDelay
DelayPcs == {"halt", "cooldown", "loop_delay"}

histRest == <<calls_this_turn, in_flight, bad_free, error_dwell, woken, tick_in_turn, tick_state,
              last_call>>
localVars == <<audio_buf, audio_len, response, ret>>

\* a boot that goes on without a configuration
AfterLoadConfig_NoHalt(r) == "face_init"

\* if (elisa_load_config() != 0) { ... while (1) { vTaskDelay(...); } }
AfterLoadConfig(r) == IF r # 0 THEN "halt" ELSE "face_init"

\* a boot that halts when the runtime is not reachable
AfterHeartbeat_HaltsWhenUnreachable(r, healthy) ==
    IF r = 0 /\ healthy THEN "audio_init" ELSE "halt"

\* if (elisa_api_heartbeat(&hb) == 0 && hb.healthy) log; else log: both
\* branches fall through to Step 7
AfterHeartbeat(r, healthy) == "audio_init"

\* Step 3: elisa_load_config(), and the halt loop when it fails
BootLoadConfig ==
    /\ pc = "load_config"
    /\ \E f \in ConfigFiles :
         /\ elisa_load_config(f)
         /\ pc' = AfterLoadConfig(elisa_load_config_ret(f))
         /\ delay_left' = IF pc' = "halt" THEN HALT_DELAY_MS ELSE 0
         /\ last_load' = [called |-> TRUE, ret |-> elisa_load_config_ret(f),
                          face |-> f.face, prev_ok |-> s_config_loaded]
    /\ UNCHANGED <<faceVars, apiVars, localVars, sr_event_queue, heap, inputVars>>
    /\ UNCHANGED <<face_trace, last_write, histRest, hb, hb_call, api_call>>

\* while (1) { vTaskDelay(pdMS_TO_TICKS(1000)); }
HaltLoop ==
    /\ pc = "halt"
    /\ delay_left = 0
    /\ delay_left' = HALT_DELAY_MS
    /\ UNCHANGED <<pc, faceVars, apiVars, configVars, bootVars, localVars, sr_event_queue, heap,
                   inputVars, face_trace, last_write, histRest>>

\* Step 4: bsp_display_start(); elisa_face_init(face);
BootFaceInit ==
    /\ pc = "face_init"
    /\ \E scr_ok \in BOOLEAN : elisa_face_init(elisa_get_face_descriptor, s_face, scr_ok)
    /\ Observe
    /\ pc' = "boot_idle"
    /\ UNCHANGED <<apiVars, configVars, bootVars, delay_left, localVars, sr_event_queue, heap,
                   inputVars, histRest>>

\* elisa_face_set_state(FACE_STATE_IDLE);
BootSetIdle ==
    /\ pc = "boot_idle"
    /\ elisa_face_set_state(FACE_STATE_IDLE)
    /\ Observe
    /\ pc' = "wifi"
    /\ UNCHANGED <<apiVars, configVars, bootVars, delay_left, localVars, sr_event_queue, heap,
                   inputVars, histRest>>

\* Step 5: elisa_face_set_state(FACE_STATE_THINKING); init_wifi(...)
BootWifi ==
    /\ pc = "wifi"
    /\ elisa_face_set_state(FACE_STATE_THINKING)
    /\ Observe
    /\ pc' = "api_init"
    /\ UNCHANGED <<apiVars, configVars, bootVars, delay_left, localVars, sr_event_queue, heap,
                   inputVars, histRest>>

\* Step 6: elisa_api_init(config);
BootApiInit ==
    /\ pc = "api_init"
    /\ elisa_api_init(elisa_get_config)
    /\ pc' = "heartbeat"
    /\ UNCHANGED <<faceVars, configVars, bootVars, delay_left, localVars, sr_event_queue, heap,
                   inputVars, face_trace, last_write, histRest>>

\* elisa_heartbeat_t hb; elisa_api_heartbeat(&hb): the client handle is
\* created and cleaned up inside the call
BootHeartbeat ==
    /\ pc = "heartbeat"
    /\ \E client_ok \in BOOLEAN, h \in HttpResults, garbage \in GarbageHeartbeats :
         LET r == elisa_api_heartbeat_ret(s_initialized_api, client_ok, h)
             res == elisa_api_heartbeat_result(s_initialized_api, client_ok, h, garbage)
         IN  /\ hb' = res
             /\ hb_call' = [called |-> TRUE, ret |-> r]
             \* hb.healthy is read only when the call returned 0
             /\ pc' = AfterHeartbeat(r, r = 0 /\ res.healthy)
    /\ UNCHANGED <<faceVars, apiVars, configVars, last_load, api_call, delay_left, localVars,
                   sr_event_queue, heap, inputVars, face_trace, last_write, histRest>>

\* Step 7: init_audio(); init_wake_word(...); elisa_face_set_state(FACE_STATE_IDLE);
\* Step 8: conversation_loop()
BootAudio ==
    /\ pc = "audio_init"
    /\ elisa_face_set_state(FACE_STATE_IDLE)
    /\ Observe
    /\ pc' = "WaitForWake"
    /\ UNCHANGED <<apiVars, configVars, bootVars, delay_left, localVars, sr_event_queue, heap,
                   inputVars, histRest>>

\* time passes while the main task sits in vTaskDelay
TimePasses ==
    /\ pc \in DelayPcs
    /\ delay_left > 0
    /\ delay_left' = Max0(delay_left - DelayQuantumMs)
    /\ error_dwell' = IF pc = "cooldown" /\ s_state = FACE_STATE_ERROR
                      THEN error_dwell + (delay_left - delay_left')
                      ELSE error_dwell
    /\ UNCHANGED <<pc, faceVars, apiVars, configVars, bootVars, localVars, sr_event_queue, heap,
                   inputVars, face_trace, last_write>>
    /\ UNCHANGED <<calls_this_turn, in_flight, bad_free, woken, tick_in_turn, tick_state, last_call>>

\* ESP-SR detects the wake word and posts an event; a full queue drops it
WakeEvent ==
    /\ pc \in LoopPcs
    /\ sr_event_queue < MaxQueue
    /\ sr_event_queue' = sr_event_queue + 1
    /\ UNCHANGED <<pc, delay_left, localVars, heap>>
    /\ UNCHANGED <<faceVars, apiVars, configVars, bootVars, inputVars, histVars>>

----------------------------------------------------------------------------
\* elisa_main.c: conversation_loop, steps 1 to 6 and the closing delay

\* a wake event also restarts the loop while the HTTP exchange is running
WakeReceivable_MidTurn(p) == p \in {"WaitForWake", "http_perform"}

\* step 1: the loop takes a wake event only in xQueueReceive
WakeReceivable(p) == p = "WaitForWake"

\* the audio pointer is not looked at
Step5Condition_RetOnly(r, resp) == r = 0

\* step 5: if (ret == 0 && response.audio_data != NULL)
Step5Condition(r, resp) == r = 0 /\ resp.audio_data # NULL

\* the error branch shows no error face
Step5State_NoErrorFace(cond) == IF cond THEN FACE_STATE_SPEAKING ELSE FACE_STATE_IDLE

\* step 5: the face state each branch sets
Step5State(cond) == IF cond THEN FACE_STATE_SPEAKING ELSE FACE_STATE_ERROR

\* a failed turn is sent again after the cooldown
AfterCooldown_Retry(r) == IF r # 0 THEN "Thinking" ELSE "free_response"

\* where the loop goes when the error branch's vTaskDelay(2000) returns
AfterCooldown(r) == "free_response"

\* 1. xQueueReceive(sr_event_queue, &sr_event, portMAX_DELAY)
RecvWake ==
    /\ WakeReceivable(pc)
    /\ sr_event_queue > 0
    /\ sr_event_queue' = sr_event_queue - 1
    /\ pc' = "Listening"
    /\ audio_buf' = NULL
    /\ audio_len' = 0
    /\ response' = ZeroResponse
    /\ ret' = 0
    /\ capture_ok' = FALSE
    /\ http_result' = NoExchange
    /\ face_trace' = <<s_state>>
    /\ calls_this_turn' = 0
    /\ error_dwell' = 0
    /\ woken' = TRUE
    /\ tick_in_turn' = FALSE
    /\ UNCHANGED tick_state
    /\ UNCHANGED <<faceVars, apiVars, configVars, bootVars, delay_left, heap>>
    /\ UNCHANGED <<in_flight, bad_free, last_write, last_call>>

\* 2. elisa_face_set_state(FACE_STATE_LISTENING)
SetListening ==
    /\ pc = "Listening"
    /\ elisa_face_set_state(FACE_STATE_LISTENING)
    /\ Observe
    /\ pc' = "capture"
    /\ UNCHANGED <<apiVars, configVars, bootVars, delay_left, localVars, sr_event_queue, heap,
                   inputVars, histRest>>

\* 3. size_t audio_len = 0; uint8_t *audio_buf = record_until_silence(&audio_len);
\*    the collaborator returns a malloc'd buffer, or NULL when capture fails
Capture ==
    /\ pc = "capture"
    /\ \E ok \in BOOLEAN, n \in 1..MaxAudioLen :
         /\ capture_ok' = ok
         /\ audio_buf' = IF ok THEN "audio_buf" ELSE NULL
         /\ audio_len' = IF ok THEN n ELSE 0
         /\ heap' = IF ok THEN heap \cup {"audio_buf"} ELSE heap
    /\ pc' = "Thinking"
    /\ UNCHANGED <<faceVars, apiVars, configVars, bootVars, delay_left, response, ret,
                   sr_event_queue, http_result, histVars>>

\* 4. elisa_face_set_state(FACE_STATE_THINKING); elisa_turn_response_t response;
SetThinking ==
    /\ pc = "Thinking"
    /\ elisa_face_set_state(FACE_STATE_THINKING)
    /\ Observe
    /\ response' \in GarbageResponses
    /\ pc' = "audio_turn"
    /\ UNCHANGED <<apiVars, configVars, bootVars, delay_left, audio_buf, audio_len, ret,
                   sr_event_queue, heap, inputVars, histRest>>

\* 4. int ret = elisa_api_audio_turn(audio_buf, audio_len, &response);
\*    elisa_api.c lines 84-118: the guard, the memset, esp_http_client_init
AudioTurnEnter ==
    /\ pc = "audio_turn"
    /\ calls_this_turn' = calls_this_turn + 1
    /\ IF ~ApiGuard(s_initialized_api, TRUE)
       THEN /\ ret' = -1
            /\ pc' = "step5"
            /\ UNCHANGED <<response, http_clients, in_flight>>
       ELSE /\ response' = memset_response(response)
            /\ \E client_ok \in BOOLEAN :
                 IF client_ok
                 THEN /\ http_clients' = http_clients + 1
                      /\ in_flight' = in_flight + 1
                      /\ pc' = "http_perform"
                      /\ ret' = ret
                 ELSE /\ ret' = -1
                      /\ pc' = "step5"
                      /\ UNCHANGED <<http_clients, in_flight>>
    /\ UNCHANGED <<faceVars, s_initialized_api, configVars, bootVars, delay_left, audio_buf,
                   audio_len, sr_event_queue, heap, inputVars>>
    /\ UNCHANGED <<face_trace, bad_free, error_dwell, woken, tick_in_turn, tick_state, last_write,
                   last_call>>

\*    elisa_api.c lines 120-146: esp_http_client_perform returns
AudioTurnPerform ==
    /\ pc = "http_perform"
    /\ \E h \in HttpResults :
         /\ http_result' = h
         /\ response' = IF h.err THEN response ELSE ResponseAfterPerform(response, h)
         /\ ret' = audio_turn_ret(h)
         /\ http_clients' = ClientsAfterExchange(http_clients, h)
    /\ in_flight' = in_flight - 1
    /\ pc' = "step5"
    /\ UNCHANGED <<faceVars, s_initialized_api, configVars, bootVars, delay_left, audio_buf,
                   audio_len, sr_event_queue, heap, capture_ok>>
    /\ UNCHANGED <<face_trace, calls_this_turn, bad_free, error_dwell, woken,
                   tick_in_turn, tick_state, last_write, last_call>>

\* 5. SPEAKING and play_audio, or ERROR and vTaskDelay(2000)
Step5 ==
    /\ pc = "step5"
    /\ LET cond == Step5Condition(ret, response)
       IN  /\ elisa_face_set_state(Step5State(cond))
           /\ pc' = IF cond THEN "playback" ELSE "cooldown"
           /\ delay_left' = IF cond THEN 0 ELSE ERROR_COOLDOWN_MS
    /\ Observe
    /\ UNCHANGED <<apiVars, configVars, bootVars, localVars, sr_event_queue, heap, inputVars,
                   histRest>>

\* 5. play_audio(...) returns, or the vTaskDelay(2000) has run out
Step5Wait ==
    /\ pc \in {"playback", "cooldown"}
    /\ pc = "cooldown" => delay_left = 0
    /\ pc' = IF pc = "cooldown" THEN AfterCooldown(ret) ELSE "free_response"
    /\ UNCHANGED <<faceVars, apiVars, configVars, bootVars, delay_left, localVars, sr_event_queue,
                   heap, inputVars, histVars>>

\* 6. elisa_api_free_response(&response);
FreeResponse ==
    /\ pc = "free_response"
    /\ heap' = free_response_heap(heap, response)
    /\ response' = free_response_resp(response)
    /\ bad_free' = (bad_free \/ free_response_bad(heap, response))
    /\ pc' = "free_audio"
    /\ UNCHANGED <<faceVars, apiVars, configVars, bootVars, delay_left, audio_buf, audio_len, ret,
                   sr_event_queue, inputVars>>
    /\ UNCHANGED <<face_trace, calls_this_turn, in_flight, error_dwell, woken,
                   tick_in_turn, tick_state, last_write, last_call>>

\* 6. free(audio_buf);
FreeAudioBuf ==
    /\ pc = "free_audio"
    /\ heap' = FreeBlock(heap, audio_buf)
    /\ bad_free' = (bad_free \/ IsBadFree(heap, audio_buf))
    /\ pc' = "set_idle"
    /\ UNCHANGED <<faceVars, apiVars, configVars, bootVars, delay_left, localVars, sr_event_queue,
                   inputVars>>
    /\ UNCHANGED <<face_trace, calls_this_turn, in_flight, error_dwell, woken,
                   tick_in_turn, tick_state, last_write, last_call>>

\* 6. elisa_face_set_state(FACE_STATE_IDLE); then vTaskDelay(pdMS_TO_TICKS(100))
SetIdle ==
    /\ pc = "set_idle"
    /\ elisa_face_set_state(FACE_STATE_IDLE)
    /\ Observe
    /\ pc' = "loop_delay"
    /\ delay_left' = LOOP_DELAY_MS
    /\ UNCHANGED <<apiVars, configVars, bootVars, localVars, sr_event_queue, heap, inputVars,
                   histRest>>

\* the closing vTaskDelay(100) has run out: next iteration of while (1)
LoopDelayDone ==
    /\ pc = "loop_delay"
    /\ delay_left = 0
    /\ pc' = "WaitForWake"
    /\ UNCHANGED <<faceVars, apiVars, configVars, bootVars, delay_left, localVars, sr_event_queue,
                   heap, inputVars, histVars>>

----------------------------------------------------------------------------
\* The device: app_main on the main task, the LVGL timer, the wake word engine

Init ==
    /\ s_state = FACE_STATE_IDLE
    /\ s_audio_level = 0
    /\ s_initialized_face = FALSE
    /\ s_anim_timer = NULL
    /\ lv_timers = 0
    /\ s_initialized_api = FALSE
    /\ http_clients = 0
    /\ s_config = EmptyConfig
    /\ s_config_loaded = FALSE
    /\ s_face_loaded = FALSE
    /\ pc = "load_config"
    /\ delay_left = 0
    /\ audio_buf = NULL
    /\ audio_len = 0
    /\ response = ZeroResponse
    /\ ret = 0
    /\ sr_event_queue = 0
    /\ heap = {}
    /\ capture_ok = FALSE
    /\ http_result = NoExchange
    /\ face_trace = <<>>
    /\ calls_this_turn = 0
    /\ in_flight = 0
    /\ bad_free = FALSE
    /\ error_dwell = 0
    /\ woken = FALSE
    /\ tick_in_turn = FALSE
    /\ last_write = FACE_STATE_IDLE
    /\ last_call = NoCall
    /\ tick_state = "none"
    /\ s_desc = ZeroDesc
    /\ lv_geometry = NoGeometry
    /\ lv_faces = 0
    /\ s_face = ZeroDesc
    /\ hb = ZeroHeartbeat
    /\ last_load = NoLoad
    /\ hb_call = [called |-> FALSE, ret |-> 0]
    /\ api_call = NoApiCall

Next ==
    \/ BootLoadConfig \/ HaltLoop \/ BootFaceInit \/ BootSetIdle \/ BootWifi
    \/ BootApiInit \/ BootHeartbeat \/ BootAudio
    \/ RecvWake \/ SetListening \/ Capture \/ SetThinking
    \/ AudioTurnEnter \/ AudioTurnPerform \/ Step5 \/ Step5Wait
    \/ FreeResponse \/ FreeAudioBuf \/ SetIdle \/ LoopDelayDone
    \/ TimePasses \/ WakeEvent \/ Tick

Spec == Init /\ [][Next]_vars

----------------------------------------------------------------------------
\* The face renderer under any sequence of calls of its public API, with the
\* LVGL timer running between the calls

\* the descriptors the calls pass to elisa_face_init
InitDescriptors ==
    {[base_shape |-> "oval", eyes_size |-> "small"],
     [base_shape |-> "square", eyes_size |-> "large"]}

ApiFaceInit ==
    /\ lv_timers < MaxTimers
    /\ lv_faces < MaxFaces
    /\ \E desc_non_null \in BOOLEAN, desc \in InitDescriptors, scr_ok \in BOOLEAN :
         /\ elisa_face_init(desc_non_null, desc, scr_ok)
         /\ last_call' = [NoCall EXCEPT !.op = "init", !.was_init = s_initialized_face,
                                         !.prev = s_state, !.scr_ok = scr_ok,
                                         !.timers = lv_timers, !.handle = s_anim_timer,
                                         !.faces = lv_faces,
                                         !.level = elisa_face_init_ret(scr_ok)]
    /\ UNCHANGED <<apiVars, configVars, bootVars, loopVars, inputVars>>
    /\ UNCHANGED <<face_trace, calls_this_turn, in_flight, bad_free, error_dwell, woken,
                   tick_in_turn, tick_state>>

ApiFaceSetState ==
    /\ \E state \in face_state_t :
         /\ elisa_face_set_state(state)
         /\ last_call' = [NoCall EXCEPT !.op = "set_state", !.state = state,
                                         !.was_init = s_initialized_face,
                                         !.prev = s_state]
    /\ UNCHANGED <<apiVars, configVars, bootVars, loopVars, inputVars>>
    /\ UNCHANGED <<face_trace, calls_this_turn, in_flight, bad_free, error_dwell, woken,
                   tick_in_turn, tick_state>>

ApiFaceSetAudioLevel ==
    /\ \E level \in AudioLevels :
         /\ elisa_face_set_audio_level(level)
         /\ last_call' = [NoCall EXCEPT !.op = "set_audio_level", !.level = level,
                                         !.was_init = s_initialized_face,
                                         !.prev = s_state]
    /\ UNCHANGED <<apiVars, configVars, bootVars, loopVars, inputVars>>
    /\ UNCHANGED <<face_trace, calls_this_turn, in_flight, bad_free, error_dwell, woken,
                   tick_in_turn, tick_state>>

ApiFaceCleanup ==
    /\ elisa_face_cleanup
    /\ last_call' = [NoCall EXCEPT !.op = "cleanup", !.was_init = s_initialized_face,
                                    !.prev = s_state, !.timers = lv_timers,
                                    !.handle = s_anim_timer]
    /\ UNCHANGED <<apiVars, configVars, bootVars, loopVars, inputVars>>
    /\ UNCHANGED <<face_trace, calls_this_turn, in_flight, bad_free, error_dwell, woken,
                   tick_in_turn, tick_state>>

FaceNext ==
    \/ ApiFaceInit \/ ApiFaceSetState \/ ApiFaceSetAudioLevel \/ ApiFaceCleanup
    \/ Tick

FaceSpec == Init /\ [][FaceNext]_vars

----------------------------------------------------------------------------
\* The config loader under any sequence of elisa_load_config calls, each
\* finding the file in any condition

ApiLoadConfig ==
    /\ \E f \in ConfigFiles :
         /\ elisa_load_config(f)
         /\ last_load' = [called |-> TRUE, ret |-> elisa_load_config_ret(f),
                          face |-> f.face, prev_ok |-> s_config_loaded]
    /\ UNCHANGED <<faceVars, apiVars, loopVars, inputVars, histVars, hb, hb_call, api_call>>

ConfigNext == ApiLoadConfig

ConfigSpec == Init /\ [][ConfigNext]_vars

----------------------------------------------------------------------------
\* The API client under any sequence of calls of its public API made by one
\* task: a call of elisa_api_audio_turn or elisa_api_heartbeat that got an
\* HTTP handle sits in esp_http_client_perform until the exchange ends

apiFrame == <<faceVars, configVars, pc, delay_left, audio_buf, audio_len, ret,
              sr_event_queue, heap, inputVars, histVars, last_load, hb_call>>

ApiInit ==
    /\ api_call.phase # "perform"
    /\ \E config_non_null \in BOOLEAN : elisa_api_init(config_non_null)
    /\ api_call' = [NoApiCall EXCEPT !.op = "init", !.was_init = s_initialized_api]
    /\ UNCHANGED <<apiFrame, response, hb>>

ApiCleanup ==
    /\ api_call.phase # "perform"
    /\ elisa_api_cleanup
    /\ api_call' = [NoApiCall EXCEPT !.op = "cleanup", !.was_init = s_initialized_api]
    /\ UNCHANGED <<apiFrame, response, hb>>

\* elisa_api_audio_turn(audio_data, audio_len, response), lines 84-111: the
\* guard, the memset and esp_http_client_init; the caller's struct holds
\* any values before the call
ApiAudioTurnCall ==
    /\ api_call.phase # "perform"
    /\ \E resp_non_null \in BOOLEAN, garbage \in GarbageResponses, client_ok \in BOOLEAN :
         LET pass == ApiGuard(s_initialized_api, resp_non_null)
             got == pass /\ client_ok
         IN  /\ response' = IF pass THEN memset_response(garbage) ELSE garbage
             /\ http_clients' = IF got THEN http_clients + 1 ELSE http_clients
             /\ api_call' = [NoApiCall EXCEPT
                               !.op = "audio_turn",
                               !.phase = IF got THEN "perform" ELSE "returned",
                               !.was_init = s_initialized_api,
                               !.out_non_null = resp_non_null,
                               !.ret = IF got THEN 0 ELSE -1,
                               !.created = IF got THEN 1 ELSE 0]
    /\ UNCHANGED <<apiFrame, s_initialized_api, hb>>

\* elisa_api_audio_turn, lines 121-146: esp_http_client_perform returns
ApiAudioTurnPerform ==
    /\ api_call.op = "audio_turn" /\ api_call.phase = "perform"
    /\ \E h \in HttpResults :
         /\ response' = IF h.err THEN response ELSE ResponseAfterPerform(response, h)
         /\ http_clients' = ClientsAfterExchange(http_clients, h)
         /\ api_call' = [api_call EXCEPT
                           !.phase = "returned", !.h = h, !.ret = audio_turn_ret(h),
                           !.cleaned = @ + (http_clients - http_clients')]
    /\ UNCHANGED <<apiFrame, s_initialized_api, hb>>

\* elisa_api_heartbeat(result), lines 150-168
ApiHeartbeatCall ==
    /\ api_call.phase # "perform"
    /\ \E result_non_null \in BOOLEAN, garbage \in GarbageHeartbeats, client_ok \in BOOLEAN :
         LET pass == ApiGuard(s_initialized_api, result_non_null)
             got == pass /\ client_ok
         IN  /\ hb' = elisa_api_heartbeat_result(pass, FALSE, NoExchange, garbage)
             /\ http_clients' = IF got THEN http_clients + 1 ELSE http_clients
             /\ api_call' = [NoApiCall EXCEPT
                               !.op = "heartbeat",
                               !.phase = IF got THEN "perform" ELSE "returned",
                               !.was_init = s_initialized_api,
                               !.out_non_null = result_non_null,
                               !.ret = IF got THEN 0
                                       ELSE elisa_api_heartbeat_ret(pass, FALSE, NoExchange),
                               !.created = IF got THEN 1 ELSE 0]
    /\ UNCHANGED <<apiFrame, s_initialized_api, response>>

\* elisa_api_heartbeat, lines 170-181
ApiHeartbeatPerform ==
    /\ api_call.op = "heartbeat" /\ api_call.phase = "perform"
    /\ \E h \in HttpResults :
         /\ hb' = elisa_api_heartbeat_result(TRUE, TRUE, h, hb)
         /\ http_clients' = ClientsAfterExchange(http_clients, h)
         /\ api_call' = [api_call EXCEPT
                           !.phase = "returned", !.h = h,
                           !.ret = elisa_api_heartbeat_ret(TRUE, TRUE, h),
                           !.cleaned = @ + (http_clients - http_clients')]
    /\ UNCHANGED <<apiFrame, s_initialized_api, response>>

ApiNext ==
    \/ ApiInit \/ ApiCleanup
    \/ ApiAudioTurnCall \/ ApiAudioTurnPerform
    \/ ApiHeartbeatCall \/ ApiHeartbeatPerform

ApiSpec == Init /\ [][ApiNext]_vars

----------------------------------------------------------------------------
\* C1 (as stated): after every elisa_face_set_state call, whenever it is made
\* (before elisa_face_init, after a failed init, after elisa_face_cleanup),
\* elisa_face_get_state returns the requested state.
C1_SetStateAlwaysTakesEffect ==
    last_call.op = "set_state" => elisa_face_get_state = last_call.state

\* C1 (amended): after an elisa_face_set_state call made while the renderer is
\* initialized, elisa_face_get_state returns the requested state, whatever
\* the state was before; a call made while it is not initialized is ignored
\* and elisa_face_get_state returns what it returned before the call.
C1_SetStateTakesEffectWhenInitialized ==
    last_call.op = "set_state" =>
        elisa_face_get_state = IF last_call.was_init THEN last_call.state
                               ELSE last_call.prev

\* a set_state call on the initialized renderer that asked for another state
C1_Witness ==
    /\ last_call.op = "set_state"
    /\ last_call.was_init
    /\ last_call.prev = FACE_STATE_SPEAKING
    /\ last_call.state = FACE_STATE_ERROR
    /\ s_state = FACE_STATE_ERROR

----------------------------------------------------------------------------
\* Claims about the device (Spec)

IdleListenThinkSpeakIdle ==
    <<FACE_STATE_IDLE, FACE_STATE_LISTENING, FACE_STATE_THINKING,
      FACE_STATE_SPEAKING, FACE_STATE_IDLE>>
IdleListenThinkErrorIdle ==
    <<FACE_STATE_IDLE, FACE_STATE_LISTENING, FACE_STATE_THINKING,
      FACE_STATE_ERROR, FACE_STATE_IDLE>>
IdleListenErrorIdle ==
    <<FACE_STATE_IDLE, FACE_STATE_LISTENING, FACE_STATE_ERROR, FACE_STATE_IDLE>>

Seen(st) == \E i \in 1..Len(face_trace) : face_trace[i] = st

\* after elisa_api_audio_turn has been called in the current turn
AfterCallPcs ==
    {"http_perform", "step5", "playback", "cooldown", "free_response",
     "free_audio", "set_idle", "loop_delay"}
\* after record_until_silence has returned in the current turn
AfterCapturePcs == {"Thinking", "audio_turn"} \cup AfterCallPcs

\* a step that takes a wake event off the queue
HonorsWake == sr_event_queue' < sr_event_queue

C3_SuccessfulTurnSpeaks ==
    (/\ pc = "loop_delay" /\ s_initialized_face /\ capture_ok
     /\ http_result.done /\ ~http_result.err
     /\ http_result.status = HTTP_OK /\ http_result.audio)
    => (face_trace = IdleListenThinkSpeakIdle /\ heap = {})

C5_CaptureFailureSkipsTurn ==
    (woken /\ s_initialized_face /\ ~capture_ok /\ pc \in AfterCapturePcs)
    => /\ calls_this_turn = 0
       /\ ~Seen(FACE_STATE_THINKING)
       /\ ~Seen(FACE_STATE_SPEAKING)
       /\ pc = "loop_delay" => face_trace = IdleListenErrorIdle

C9_TickWritesNothing ==
    /\ [](s_state = last_write)
    /\ [][Tick => (s_state' = s_state /\ s_audio_level' = s_audio_level)]_vars

\* ticks ran during a turn that is now in its error cooldown
C9_Witness ==
    /\ tick_in_turn /\ pc = "cooldown" /\ delay_left = 0
    /\ s_state = FACE_STATE_ERROR /\ last_write = FACE_STATE_ERROR

\* the steps of the main task, time passing in its delays included
MainNext ==
    \/ BootLoadConfig \/ HaltLoop \/ BootFaceInit \/ BootSetIdle \/ BootWifi
    \/ BootApiInit \/ BootHeartbeat \/ BootAudio
    \/ RecvWake \/ SetListening \/ Capture \/ SetThinking
    \/ AudioTurnEnter \/ AudioTurnPerform \/ Step5 \/ Step5Wait
    \/ FreeResponse \/ FreeAudioBuf \/ SetIdle \/ LoopDelayDone
    \/ TimePasses

----------------------------------------------------------------------------
\* C11: after every elisa_face_set_audio_level call the stored level is a
\* number between 0.0 and 1.0: an argument below 0.0 (-0.3) is stored as 0.0,
\* an argument above 1.0 (1.7) as 1.0, and an argument inside the range as
\* it was given.
C11_StoredLevelInRange ==
    last_call.op = "set_audio_level" =>
        /\ s_audio_level # NaN
        /\ s_audio_level >= 0 /\ s_audio_level <= 10
        /\ FloatLess(last_call.level, 0) => s_audio_level = 0
        /\ FloatLess(10, last_call.level) => s_audio_level = 10
        /\ (last_call.level \in 0..10) => s_audio_level = last_call.level

\* C12: elisa_face_init without a screen returns -1, creates no timer and no
\* object and leaves the initialized flag and the face state as they were;
\* with a screen it returns 0, starts one timer and leaves the renderer
\* initialized in Idle, whatever the state was before.
C12_InitFailsWithoutScreen ==
    last_call.op = "init" =>
        IF ~last_call.scr_ok
        THEN /\ last_call.level = -1
             /\ lv_timers = last_call.timers
             /\ s_anim_timer = last_call.handle
             /\ lv_faces = last_call.faces
             /\ s_initialized_face = last_call.was_init
             /\ s_state = last_call.prev
        ELSE /\ last_call.level = 0
             /\ lv_timers = last_call.timers + 1
             /\ s_anim_timer # NULL
             /\ s_initialized_face
             /\ s_state = FACE_STATE_IDLE

\* an init without a screen, made while the renderer was initialized and
\* showed the error face
C12_Witness ==
    /\ last_call.op = "init" /\ ~last_call.scr_ok /\ last_call.level = -1
    /\ last_call.was_init /\ last_call.prev = FACE_STATE_ERROR
    /\ s_state = FACE_STATE_ERROR /\ s_initialized_face

\* C13: after elisa_face_cleanup the timer handle is NULL and the renderer
\* is not initialized; a cleanup that follows a cleanup changes nothing; and
\* a cleanup deletes at most one timer, and only through a non-NULL handle
\* that it then clears, so no timer is deleted twice.
C13_CleanupIdempotent ==
    /\ [](last_call.op = "cleanup" => (s_anim_timer = NULL /\ ~s_initialized_face))
    /\ [](lv_timers >= 0)
    /\ [][(last_call.op = "cleanup" /\ ApiFaceCleanup) => UNCHANGED faceVars]_vars
    /\ [][ApiFaceCleanup =>
            /\ lv_timers' >= lv_timers - 1
            /\ lv_timers' < lv_timers => (s_anim_timer # NULL /\ s_anim_timer' = NULL)]_vars

\* the renderer was initialized once, cleaned up, and cleaned up again: the
\* last cleanup found no timer and no initialized renderer
C13_Witness ==
    /\ last_call.op = "cleanup" /\ last_call.handle = NULL /\ ~last_call.was_init
    /\ lv_faces = 1 /\ lv_timers = 0
    /\ s_anim_timer = NULL /\ ~s_initialized_face

\* C15: whatever elisa_api_heartbeat does at boot (not initialized, no client
\* handle, transport error, status 200 or another status), app_main does not
\* halt: its next step is the audio and wake word initialisation, which sets
\* the face to Idle and enters conversation_loop.
C15_HeartbeatNeverHalts ==
    /\ hb_call.called => pc \in {"audio_init"} \cup LoopPcs
    /\ pc = "audio_init" => (hb_call.called /\ ENABLED BootAudio)
    /\ pc \in LoopPcs => hb_call.called
    /\ (pc = "WaitForWake" /\ ~woken /\ s_initialized_face) => s_state = FACE_STATE_IDLE

\* the heartbeat failed on the network and the loop waits for its first wake
\* word with the face Idle
C15_Witness ==
    /\ hb_call.called /\ hb_call.ret = -1
    /\ pc = "WaitForWake" /\ ~woken
    /\ s_initialized_face /\ s_state = FACE_STATE_IDLE

\* C16: when elisa_load_config returns non-zero at boot (no file, a parse
\* error, or agent_id, api_key or runtime_url empty) app_main stays in its
\* halt loop: the face renderer and the API client are never initialized, no
\* heartbeat is sent and conversation_loop is never entered.
C16_LoadFailureHalts ==
    (last_load.called /\ last_load.ret # 0) =>
        /\ pc = "halt"
        /\ ~s_initialized_face /\ lv_timers = 0 /\ lv_faces = 0 /\ s_anim_timer = NULL
        /\ ~s_initialized_api /\ ~hb_call.called
        /\ ~woken /\ sr_event_queue = 0 /\ calls_this_turn = 0

\* the file parsed but api_key was empty, and the halt loop has gone through
\* one of its delays
C16_Witness ==
    /\ last_load.called /\ last_load.ret = -1
    /\ s_config.agent_id = "id" /\ s_config.api_key = ""
    /\ pc = "halt" /\ delay_left = 0

\* C17 (as stated): elisa_get_config returns NULL whenever elisa_load_config
\* has not been called or its most recent call failed, after every sequence
\* of load calls; and whenever it returns a configuration, agent_id, api_key
\* and runtime_url are all non-empty.
C17_GetConfigNullUnlessLoaded ==
    /\ (~last_load.called \/ last_load.ret # 0) => ~elisa_get_config
    /\ elisa_get_config => RequiredPresent(s_config)

\* C18 (as stated): elisa_get_face_descriptor returns NULL when the config
\* carried no face_descriptor object or the load failed (or was never made);
\* it returns a descriptor only when the config carried one.
C18_FaceDescriptorOnlyWhenPresent ==
    (~last_load.called \/ last_load.ret # 0 \/ ~last_load.face)
        => ~elisa_get_face_descriptor

\* C20: a run of anim_timer_cb (the tick takes no elapsed time: every run is
\* covered, a run after no time included) leaves the geometry of the face
\* objects as it was, in every face state.
C20_TickLeavesGeometry ==
    [][Tick => lv_geometry' = lv_geometry]_vars

\* a tick ran while an oval face with small eyes showed Speaking, and the
\* objects are as elisa_face_init built them
C20_Witness ==
    /\ tick_state = FACE_STATE_SPEAKING /\ s_state = FACE_STATE_SPEAKING
    /\ s_initialized_face
    /\ lv_geometry = [bg_w |-> 140, bg_h |-> 170, bg_radius |-> LV_RADIUS_CIRCLE,
                      eye_w |-> 16, eye_h |-> 16, mouth_w |-> 40, mouth_h |-> 4]

\* C21: elisa_api_audio_turn returns 0 exactly when the client was
\* initialized, the response pointer was non-NULL, the exchange completed
\* and its status was 200; after a completed exchange with another status
\* it returns -1 and response->status_code is that status; after a
\* transport error it returns -1 and every field of the response is zero.
C21_AudioTurnReturn ==
    (api_call.op = "audio_turn" /\ api_call.phase = "returned") =>
        LET completed == api_call.h.done /\ ~api_call.h.err
        IN  /\ api_call.ret \in {0, -1}
            /\ api_call.ret = 0 <=>
                  (api_call.was_init /\ api_call.out_non_null /\ completed
                   /\ api_call.h.status = 200)
            /\ api_call.h.done => (api_call.was_init /\ api_call.out_non_null)
            /\ (completed /\ api_call.h.status # 200) =>
                  (api_call.ret = -1 /\ response.status_code = api_call.h.status)
            /\ (api_call.h.done /\ api_call.h.err) =>
                  /\ api_call.ret = -1
                  /\ response.status_code = 0
                  /\ response.text = NULL /\ response.audio_data = NULL
                  /\ response.audio_len = 0

\* the runtime answered 401: -1 is returned and the status is in the response
C21_Witness ==
    /\ api_call.op = "audio_turn" /\ api_call.phase = "returned"
    /\ api_call.h.done /\ ~api_call.h.err /\ api_call.h.status = 401
    /\ api_call.ret = -1 /\ response.status_code = 401

\* C22: while the renderer is not initialized (before the first successful
\* elisa_face_init, after elisa_face_cleanup) an elisa_face_set_state call
\* changes nothing; elisa_face_get_state always returns the last state
\* written while initialized (Idle if there was none); and while not
\* initialized the state changes only by a successful elisa_face_init, to
\* Idle.
C22_SetStateNoOpWhileUninitialized ==
    /\ [](elisa_face_get_state = last_write)
    /\ [][(~s_initialized_face /\ ApiFaceSetState) => UNCHANGED faceVars]_vars
    /\ [][(~s_initialized_face /\ s_state' # s_state) =>
            /\ last_call'.op = "init" /\ last_call'.scr_ok /\ last_call'.level = 0
            /\ s_initialized_face'
            /\ s_state' = FACE_STATE_IDLE]_vars

\* the renderer showed Thinking when it was cleaned up; a later request for
\* Listening was ignored
C22_Witness ==
    /\ last_call.op = "set_state" /\ ~last_call.was_init
    /\ last_call.state = FACE_STATE_LISTENING
    /\ lv_faces = 1 /\ s_anim_timer = NULL /\ ~s_initialized_face
    /\ s_state = FACE_STATE_THINKING /\ last_write = FACE_STATE_THINKING

\* C23: a call of elisa_api_audio_turn or elisa_api_heartbeat creates at most
\* one HTTP client handle and has cleaned it up exactly once when it
\* returns, after a transport error, a status other than 200 and a success
\* alike, so no handle is alive between calls; and a call made while the
\* client is not initialized returns -1 having created no handle and
\* performed no exchange.
C23_HandlesCleanedOnce ==
    /\ api_call.created <= 1 /\ api_call.cleaned <= api_call.created
    /\ http_clients = api_call.created - api_call.cleaned
    /\ api_call.phase # "perform" => (http_clients = 0 /\ api_call.cleaned = api_call.created)
    /\ (api_call.phase = "returned" /\ api_call.h.done) =>
          (api_call.created = 1 /\ api_call.cleaned = 1)
    /\ (api_call.op \in {"audio_turn", "heartbeat"} /\ ~api_call.was_init) =>
          /\ api_call.phase = "returned" /\ api_call.ret = -1
          /\ api_call.created = 0 /\ ~api_call.h.done

\* a heartbeat made after elisa_api_init ended in a transport error and its
\* handle is gone
C23_Witness ==
    /\ api_call.op = "heartbeat" /\ api_call.phase = "returned"
    /\ api_call.was_init /\ api_call.h.done /\ api_call.h.err
    /\ api_call.ret = -1 /\ api_call.created = 1 /\ api_call.cleaned = 1
    /\ http_clients = 0

====
